---- MODULE Spec2Model ----
(***************************************************************************)
(* Model of scripts/build_isic_sets.py: paginated, retrying harvesting of  *)
(* ISIC records into per-label buckets with checkpoint/resume, and the     *)
(* deterministic construction of quiz sets from two buckets.               *)
(*                                                                         *)
(* Representation.  An isic_id is a natural number; 0 is the empty string  *)
(* (it sorts before every other id, as '' does).  A URL of the API is the  *)
(* index of a page in the endpoint's page stream; 0 is None.  An optional  *)
(* case (dict | None) is a sequence of length <= 1.                        *)
(***************************************************************************)
EXTENDS Integers, Sequences, FiniteSets, TLC

\* ------------------------------------------------------------------ bounds
\* TARGET_PER_LABEL is 15 and the scan cap 50000 in the script; a checkpoint
\* is written about every 1000 scanned lesions.  The model keeps the code's
\* comparisons and scales the three numbers down.
TARGET_PER_LABEL == 2
ScanCap == 12
SavePeriod == 8
MaxLesionPages == 2
MaxSearchPages == 2
\* bounds of the build_sets inputs
MaxBucketLen == 6
MaxSets == 3
MaxPerClass == 5

\* ------------------------------------------------------- program constants
RETRIES == 5
BackoffCap == 20
EmptyId == 0

LABELS == {"melanoma", "nevus", "bcc", "sebaceous_hyperplasia", "actinic_keratosis", "bowen"}
LesionLabels == {"melanoma", "nevus", "bcc", "actinic_keratosis"}
SearchLabels == <<"sebaceous_hyperplasia", "bowen">>

Min(a, b) == IF a < b THEN a ELSE b

RECURSIVE Pow2(_)
Pow2(n) == IF n = 0 THEN 1 ELSE 2 * Pow2(n - 1)

\* ------------------------------------------------------------- fetch_json
BackoffUncapped(i) == Pow2(i)

\* time.sleep(min(2 ** i, 20)) after failed attempt i
Backoff(i) == Min(Pow2(i), BackoffCap)

\* ------------------------------------------------------------ case filter
\* str(...).lower() on the image types that occur
Lower(t) == CASE t = "Dermoscopic" -> "dermoscopic"
              [] t = "Clinical" -> "clinical"
              [] OTHER -> t

\* 'dermo' in t, for lower-cased t
HasDermo(t) == t \in {"dermoscopic", "dermoscopy"}

is_dermoscopic_any(image_type) == TRUE

is_dermoscopic(image_type) ==
    LET t == Lower(image_type) IN (t = "") \/ HasDermo(t)

NoCase == <<>>

lesion_to_case(img, label) ==
    IF img.url = "" \/ img.isic_id = EmptyId THEN NoCase
    ELSE IF ~is_dermoscopic(img.image_type) THEN NoCase
    ELSE << [id |-> img.isic_id, imageUrl |-> img.url,
             diagnosis |-> label, source |-> "APIv2-lesions"] >>

\* the dict built inline by harvest_by_search; it is never None
search_case(r, label) ==
    << [id |-> r.isic_id, imageUrl |-> r.url,
        diagnosis |-> label, source |-> "APIv2-search"] >>

add_case_counting_seen(bk, label, case) ==
    IF case = NoCase THEN bk
    ELSE IF bk.counts[label] >= TARGET_PER_LABEL THEN bk
    ELSE IF \E i \in 1..Len(bk.buckets[label]) : bk.buckets[label][i].id = case[1].id
    THEN [bk EXCEPT !.counts[label] = @ + 1]
    ELSE [buckets |-> [bk.buckets EXCEPT ![label] = Append(@, case[1])],
          counts |-> [bk.counts EXCEPT ![label] = @ + 1]]

add_case_nocap(bk, label, case) ==
    IF case = NoCase THEN bk
    ELSE IF \E i \in 1..Len(bk.buckets[label]) : bk.buckets[label][i].id = case[1].id THEN bk
    ELSE [buckets |-> [bk.buckets EXCEPT ![label] = Append(@, case[1])],
          counts |-> [bk.counts EXCEPT ![label] = @ + 1]]

add_case_nodedup(bk, label, case) ==
    IF case = NoCase THEN bk
    ELSE IF bk.counts[label] >= TARGET_PER_LABEL THEN bk
    ELSE [buckets |-> [bk.buckets EXCEPT ![label] = Append(@, case[1])],
          counts |-> [bk.counts EXCEPT ![label] = @ + 1]]

\* bk = [buckets, counts]; the result is the pair after the call
add_case(bk, label, case) ==
    IF case = NoCase THEN bk
    ELSE IF bk.counts[label] >= TARGET_PER_LABEL THEN bk
    ELSE IF \E i \in 1..Len(bk.buckets[label]) : bk.buckets[label][i].id = case[1].id THEN bk
    ELSE [buckets |-> [bk.buckets EXCEPT ![label] = Append(@, case[1])],
          counts |-> [bk.counts EXCEPT ![label] = @ + 1]]

\* buckets[label] of add_case raises KeyError: the call got past its first two
\* tests and the buckets dict has no entry for the label
AddCaseRaises(bk, label, case) ==
    /\ case # NoCase
    /\ bk.counts[label] < TARGET_PER_LABEL
    /\ label \notin DOMAIN bk.buckets

done_pair(counts, a, b) ==
    counts[a] >= TARGET_PER_LABEL /\ counts[b] >= TARGET_PER_LABEL

\* txt is the set of the search terms that occur in the lower-cased text
map_lesion_label_melanoma_first(txt) ==
    IF "melanoma" \in txt THEN "melanoma"
    ELSE IF "actinic keratosis" \in txt THEN "actinic_keratosis"
    ELSE IF "basal cell carcinoma" \in txt THEN "bcc"
    ELSE IF "nevus" \in txt \/ "naevus" \in txt THEN "nevus"
    ELSE IF "bowen" \in txt \/ "squamous cell carcinoma in situ" \in txt THEN "bowen"
    ELSE "None"

map_lesion_label(txt) ==
    IF "actinic keratosis" \in txt THEN "actinic_keratosis"
    ELSE IF "basal cell carcinoma" \in txt THEN "bcc"
    ELSE IF "melanoma" \in txt THEN "melanoma"
    ELSE IF "nevus" \in txt \/ "naevus" \in txt THEN "nevus"
    ELSE IF "bowen" \in txt \/ "squamous cell carcinoma in situ" \in txt THEN "bowen"
    ELSE "None"

\* -------------------------------------------------------------- build_sets
RECURSIVE InsertSorted(_, _)
InsertSorted(s, x) ==
    IF s = <<>> THEN <<x>>
    ELSE IF s[Len(s)].id <= x.id THEN Append(s, x)
    ELSE Append(InsertSorted(SubSeq(s, 1, Len(s) - 1), x), s[Len(s)])

SortedByIdAsArrived(s) == s

RECURSIVE SortedById(_)
\* sorted(a, key=lambda x: x['id']), a stable sort
SortedById(s) ==
    IF s = <<>> THEN <<>>
    ELSE InsertSorted(SortedById(SubSeq(s, 1, Len(s) - 1)), s[Len(s)])

SliceInclusive(s, from, to) == SubSeq(s, from + 1, Min(to + 1, Len(s)))

\* s[from:to] of Python, for 0 <= from <= to
Slice(s, from, to) == SubSeq(s, from + 1, Min(to, Len(s)))

ZipRepeatingFirst(aa, bb) ==
    [i \in 1..(2 * Min(Len(aa), Len(bb))) |-> IF i % 2 = 1 THEN aa[1] ELSE bb[1]]

RECURSIVE Zip(_, _)
\* merged: x, y for x, y in zip(aa, bb)
Zip(aa, bb) ==
    IF aa = <<>> \/ bb = <<>> THEN <<>>
    ELSE <<aa[1], bb[1]>> \o Zip(Tail(aa), Tail(bb))

ChunkOkLoose(aa, bb, per_class) == Len(aa) = per_class

ChunkOk(aa, bb, per_class) == Len(aa) = per_class /\ Len(bb) = per_class

RECURSIVE AttemptFrom(_, _, _, _, _)
\* the sets of chunks i .. nsets-1 of one attempt
AttemptFrom(aa_all, bb_all, nsets, per_class, i) ==
    IF i >= nsets THEN <<>>
    ELSE LET aa == Slice(aa_all, i * per_class, (i + 1) * per_class)
             bb == Slice(bb_all, i * per_class, (i + 1) * per_class)
             rest == AttemptFrom(aa_all, bb_all, nsets, per_class, i + 1)
         IN IF ChunkOk(aa, bb, per_class) THEN <<Zip(aa, bb)>> \o rest ELSE rest

\* one pass of the loop over (preferred_per_class, fallback_per_class)
Attempt(a_sorted, b_sorted, nsets, per_class) ==
    LET need == nsets * per_class
    IN AttemptFrom(Slice(a_sorted, 0, need), Slice(b_sorted, 0, need), nsets, per_class, 0)

PerClassPreferredOnly(a, b, nsets, preferred_per_class, fallback_per_class) ==
    preferred_per_class

\* the per_class of the pass whose out build_sets returns
PerClassUsed(a, b, nsets, preferred_per_class, fallback_per_class) ==
    IF Len(Attempt(SortedById(a), SortedById(b), nsets, preferred_per_class)) = nsets
    THEN preferred_per_class ELSE fallback_per_class

build_sets(a, b, nsets, preferred_per_class, fallback_per_class) ==
    Attempt(SortedById(a), SortedById(b), nsets,
            PerClassUsed(a, b, nsets, preferred_per_class, fallback_per_class))


\* ------------------------------------------------------- the remote API
\* an image record: the fields the script reads, and the lesion the archive
\* files the image under ("" when it names none), which the script never reads
ImgOfLesion(id, u, t, les) ==
    [isic_id |-> id, url |-> u, image_type |-> t, lesion_id |-> les]
Img(id, u, t) == ImgOfLesion(id, u, t, "")
Lesion(txt, index, imgs) == [txt |-> txt, index_image_id |-> index, images |-> imgs]

\* result pages of the lesions endpoint
LesionPagePool ==
    [LA |-> << Lesion({"melanoma"}, 1, <<Img(1, "u", "dermoscopic")>>),
               Lesion({"nevus"}, 11, <<Img(11, "u", "")>>),
               Lesion({"basal cell carcinoma"}, 21, <<Img(21, "u", "dermoscopic")>>),
               Lesion({"actinic keratosis"}, 31, <<Img(31, "u", "dermoscopic")>>) >>,
     LB |-> << Lesion({"melanoma"}, 2, <<Img(2, "u", "dermoscopic")>>),
               Lesion({"naevus"}, 12, <<Img(12, "u", "dermoscopic")>>),
               Lesion({"basal cell carcinoma"}, 22, <<Img(22, "u", "")>>),
               Lesion({"actinic keratosis", "melanoma"}, 32, <<Img(32, "u", "dermoscopic")>>) >>,
     LC |-> << Lesion({"melanoma"}, 1, <<Img(1, "u", "dermoscopic")>>),
               Lesion({"melanoma", "nevus"}, 4, <<Img(4, "u", "Dermoscopic")>>),
               Lesion({"nevus"}, 14, <<Img(13, "u", "clinical"), Img(14, "u", "")>>),
               Lesion({"basal cell carcinoma"}, EmptyId, <<Img(EmptyId, "u", "dermoscopic")>>),
               Lesion({"actinic keratosis"}, 33, <<Img(33, "", "dermoscopic")>>),
               Lesion({"basal cell carcinoma"}, 24, <<Img(24, "u", "Clinical")>>),
               Lesion({"actinic keratosis"}, 34, <<Img(34, "u", "dermoscopy")>>),
               Lesion({"bowen"}, 50, <<Img(50, "u", "dermoscopic")>>),
               Lesion({}, 40, <<Img(40, "u", "dermoscopic")>>),
               Lesion({"nevus"}, 15, <<>>) >>,
     LE |-> << >>]

\* result pages of the image search endpoint
SearchPagePool ==
    [SA |-> << ImgOfLesion(61, "u", "dermoscopic", "IL_1"), Img(62, "u", "clinical"),
               ImgOfLesion(63, "u", "", "IL_1") >>,
     SB |-> << ImgOfLesion(61, "u", "dermoscopic", "IL_1"), Img(EmptyId, "u", "dermoscopic"),
               Img(64, "", "") >>,
     SC |-> << Img(62, "u", "Clinical"), Img(65, "u", "Dermoscopic") >>,
     SE |-> << >>]

RECURSIVE SeqsUpTo(_, _)
\* the non-empty sequences over S of length <= n
SeqsUpTo(S, n) ==
    IF n = 0 THEN {}
    ELSE LET shorter == SeqsUpTo(S, n - 1)
         IN {<<x>> : x \in S} \cup shorter \cup {Append(q, x) : q \in shorter, x \in S}

LesionStreams == SeqsUpTo(DOMAIN LesionPagePool, MaxLesionPages)
SearchStreams == SeqsUpTo(DOMAIN SearchPagePool, MaxSearchPages)

Api(l, s, b) ==
    [lesions |-> l, search |-> [x \in {"sebaceous_hyperplasia", "bowen"} |->
                                   IF x = "bowen" THEN b ELSE s]]

\* the archives the runs are checked against: every lesion stream, and every
\* search stream for each of the two searched labels
Apis ==
    {Api(l, <<"SA">>, <<"SC">>) : l \in LesionStreams}
    \cup {Api(<<"LA">>, s, <<"SC">>) : s \in SearchStreams}
    \cup {Api(<<"LC">>, <<"SB">>, b) : b \in SearchStreams}

NoDoc == [results |-> <<>>, next |-> 0]

\* the document of page idx of a stream: its results and its next cursor.
\* A stream that ends with "AGAIN" never ends: the next cursor of its last page
\* leads to its first page.
PageDoc(pool, stream, idx) ==
    [results |-> pool[stream[idx]],
     next |-> IF idx >= Len(stream) THEN 0
              ELSE IF stream[idx + 1] = "AGAIN" THEN 1
              ELSE idx + 1]

\* ----------------------------------------------------- checkpoint contents
FreshBuckets == [l \in LABELS |-> <<>>]
FreshCounts == [l \in LABELS |-> 0]
FreshState ==
    [lesions_url |-> 0, scanned_lesions |-> 0,
     search_url |-> [x \in {"sebaceous_hyperplasia", "bowen"} |-> 0]]

CkData(st, bks, cnts) ==
    [lesions_url |-> st.lesions_url, scanned_lesions |-> st.scanned_lesions,
     search_url |-> st.search_url, counts |-> cnts, buckets |-> bks]

FreshCk == CkData(FreshState, FreshBuckets, FreshCounts)

NoFile == [kind |-> "absent", data |-> FreshCk]
\* the file a kill inside write_text leaves: a prefix of the text of the state
\* that was being written, which json.loads rejects
CutFile(st, bks, cnts) == [kind |-> "malformed", data |-> CkData(st, bks, cnts)]

save_ck_stale_counts(st, bks, cnts) ==
    [kind |-> "ok", data |-> CkData(st, bks, FreshCounts)]

\* json.dumps(state) written by write_text
save_ck(st, bks, cnts) == [kind |-> "ok", data |-> CkData(st, bks, cnts)]

load_ck_reading_cut_text(file) == IF file.kind = "absent" THEN FreshCk ELSE file.data

\* load_ck() or {} followed by the ck.get(...) defaults of main
load_ck(file) == IF file.kind = "ok" THEN file.data ELSE FreshCk


\* ------------------------------------------------------------------ state
VARIABLES
    api,        \* the pages the archive serves (fixed during a behaviour)
    ckfile,     \* CK_PATH on disk
    outfile,    \* OUT_PATH on disk
    pc,         \* position of the running script
    lab,        \* label of the running harvest_by_search call
    state,      \* the state dict of main: cursors and scanned total
    buckets,    \* buckets of main
    counts,     \* counts of main
    url,        \* url of harvest_from_lesions
    scanned,    \* scanned of harvest_from_lesions
    furl,       \* url of the running fetch_json call
    tries,      \* attempts of the running fetch_json call: outcome and sleep
    j,          \* j, the last document fetch_json returned
    resumed,    \* load_ck() returned a checkpoint in this run
    interrupted, \* history: a run of the script was killed since the start
    bA, bB, nsets, pref, fallb,   \* arguments of a build_sets call
    sets,       \* its result
    bpc,        \* "input" before the call, "built" after
    lesion_in,  \* argument of a map_lesion_label call
    label_out,  \* its result
    mpc         \* "input" before the call, "mapped" after

harvestVars == <<api, ckfile, outfile, pc, lab, state, buckets, counts, url,
                 scanned, furl, tries, j, resumed, interrupted>>
buildVars == <<bA, bB, nsets, pref, fallb, sets, bpc>>
labelVars == <<lesion_in, label_out, mpc>>
vars == <<api, ckfile, outfile, pc, lab, state, buckets, counts, url,
          scanned, furl, tries, j, resumed, interrupted, bA, bB, nsets, pref, fallb, sets, bpc,
          lesion_in, label_out, mpc>>

NoOut == [kind |-> "absent", counts |-> FreshCounts, scanned_lesions |-> 0,
          set_sizes |-> <<>>, modules |-> <<>>]
BadOut == [kind |-> "malformed", counts |-> FreshCounts, scanned_lesions |-> 0,
           set_sizes |-> <<>>, modules |-> <<>>]

Stopped == {"boot", "crashed", "aborted", "keyerror", "done"}

\* the values of the script's variables when no process runs
NoProcess ==
    /\ lab' = ""
    /\ state' = FreshState
    /\ buckets' = FreshBuckets
    /\ counts' = FreshCounts
    /\ url' = 0
    /\ scanned' = 0
    /\ furl' = 0
    /\ j' = NoDoc
    /\ resumed' = FALSE

\* --------------------------------------------------- harvest_from_lesions
\* the image of a lesion that stands for it: <<>> or <<img>>
PickImage(lesion) ==
    LET imgs == lesion.images
        hits == {i \in 1..Len(imgs) : imgs[i].isic_id = lesion.index_image_id}
    IN IF hits # {} THEN <<imgs[CHOOSE i \in hits : \A k \in hits : i <= k]>>
       ELSE IF imgs # <<>> THEN <<imgs[1]>>
       ELSE <<>>

\* the body of `for lesion in res` without scanned += 1
ProcessLesion(bk, lesion) ==
    LET label == map_lesion_label(lesion.txt)
        pick == PickImage(lesion)
    IN IF label \in LesionLabels /\ pick # <<>>
       THEN add_case(bk, label, lesion_to_case(pick[1], label))
       ELSE bk

\* the add_case call for this lesion raises KeyError
LesionRaises(bk, lesion) ==
    LET label == map_lesion_label(lesion.txt)
        pick == PickImage(lesion)
    IN /\ label \in LesionLabels
       /\ pick # <<>>
       /\ AddCaseRaises(bk, label, lesion_to_case(pick[1], label))

RECURSIVE LesionPageRaises(_, _)
LesionPageRaises(bk, res) ==
    /\ res # <<>>
    /\ \/ LesionRaises(bk, res[1])
       \/ LesionPageRaises(ProcessLesion(bk, res[1]), Tail(res))

RECURSIVE ProcessLesionPage(_, _)
ProcessLesionPage(bk, res) ==
    IF res = <<>> THEN bk
    ELSE ProcessLesionPage(ProcessLesion(bk, res[1]), Tail(res))

LesionsDone(cnts) ==
    /\ done_pair(cnts, "melanoma", "nevus")
    /\ cnts["bcc"] >= TARGET_PER_LABEL
    /\ cnts["actinic_keratosis"] >= TARGET_PER_LABEL

LesionLoopCondNoCap(u, sc, cnts) == u # 0 /\ ~LesionsDone(cnts)

\* while url and scanned < 50000 and not (...)
LesionLoopCond(u, sc, cnts) == u # 0 /\ sc < ScanCap /\ ~LesionsDone(cnts)

LesionShouldSaveAlways(sc, n) == TRUE

\* if scanned % 1000 < len(res)
LesionShouldSave(sc, n) == (sc % SavePeriod) < n

\* ------------------------------------------------------ harvest_by_search
RECURSIVE ProcessSearchPage(_, _, _)
\* `for r in res` with its continue and break
ProcessSearchPage(bk, res, label) ==
    IF res = <<>> THEN bk
    ELSE IF ~is_dermoscopic(res[1].image_type)
         THEN ProcessSearchPage(bk, Tail(res), label)
    ELSE LET nb == add_case(bk, label, search_case(res[1], label))
         IN IF nb.counts[label] >= TARGET_PER_LABEL THEN nb
            ELSE ProcessSearchPage(nb, Tail(res), label)

RECURSIVE SearchPageRaises(_, _, _)
\* an add_case call of the page raises KeyError
SearchPageRaises(bk, res, label) ==
    /\ res # <<>>
    /\ IF ~is_dermoscopic(res[1].image_type)
       THEN SearchPageRaises(bk, Tail(res), label)
       ELSE \/ AddCaseRaises(bk, label, search_case(res[1], label))
            \/ LET nb == add_case(bk, label, search_case(res[1], label))
               IN /\ nb.counts[label] < TARGET_PER_LABEL
                  /\ SearchPageRaises(nb, Tail(res), label)

SearchLoopCond(cnts, label, doc) ==
    cnts[label] < TARGET_PER_LABEL /\ doc.results # <<>>

\* ------------------------------------------------------------------- main
Modules(bks) ==
    [mel_vs_nevus |-> build_sets(bks["melanoma"], bks["nevus"], 3, 5, 3),
     bcc_vs_sh |-> build_sets(bks["bcc"], bks["sebaceous_hyperplasia"], 3, 5, 3),
     ak_vs_bowen |-> build_sets(bks["actinic_keratosis"], bks["bowen"], 3, 5, 3)]

Payload(st, bks, cnts) ==
    LET m == Modules(bks)
    IN [kind |-> "ok", counts |-> cnts, scanned_lesions |-> st.scanned_lesions,
        set_sizes |-> [k \in DOMAIN m |-> [i \in 1..Len(m[k]) |-> Len(m[k][i])]],
        modules |-> m]

\* ------------------------------------- a run that nothing interrupts
RECURSIVE LesionsFrom(_, _, _, _)
\* harvest_from_lesions from cursor u with sc scanned, every fetch succeeding
LesionsFrom(bk, u, sc, stream) ==
    IF ~LesionLoopCond(u, sc, bk.counts) THEN bk
    ELSE LET doc == PageDoc(LesionPagePool, stream, u)
         IN IF doc.results = <<>> THEN bk
            ELSE LesionsFrom(ProcessLesionPage(bk, doc.results), doc.next,
                             sc + Len(doc.results), stream)

RECURSIVE SearchFrom(_, _, _, _)
\* the while loop of harvest_by_search from document doc, every fetch succeeding
SearchFrom(bk, label, doc, stream) ==
    IF ~SearchLoopCond(bk.counts, label, doc) THEN bk
    ELSE LET nb == ProcessSearchPage(bk, doc.results, label)
         IN IF doc.next = 0 THEN nb
            ELSE SearchFrom(nb, label, PageDoc(SearchPagePool, stream, doc.next), stream)

\* buckets and counts at the end of main started without a checkpoint
UninterruptedRun(a) ==
    LET fresh == [buckets |-> FreshBuckets, counts |-> FreshCounts]
        l == LesionsFrom(fresh, 1, 0, a.lesions)
        s1 == SearchFrom(l, SearchLabels[1],
                         PageDoc(SearchPagePool, a.search[SearchLabels[1]], 1),
                         a.search[SearchLabels[1]])
    IN SearchFrom(s1, SearchLabels[2],
                  PageDoc(SearchPagePool, a.search[SearchLabels[2]], 1),
                  a.search[SearchLabels[2]])

\* ---------------------------------------------------------------- actions
\* main up to the first loop test of harvest_from_lesions
Start ==
    /\ pc \in Stopped
    /\ LET ck == load_ck(ckfile)
       IN /\ buckets' = ck.buckets
          /\ counts' = ck.counts
          /\ state' = [lesions_url |-> ck.lesions_url,
                       scanned_lesions |-> ck.scanned_lesions,
                       search_url |-> ck.search_url]
          /\ url' = IF ck.lesions_url # 0 THEN ck.lesions_url ELSE 1
          /\ scanned' = ck.scanned_lesions
    /\ resumed' = (ckfile.kind = "ok")
    /\ pc' = "les_loop"
    /\ lab' = ""
    /\ furl' = 0
    /\ tries' = <<>>
    /\ j' = NoDoc
    /\ UNCHANGED <<api, ckfile, outfile>>
    /\ UNCHANGED interrupted
    /\ UNCHANGED buildVars
    /\ UNCHANGED labelVars

\* the while test of harvest_from_lesions
LesLoop ==
    /\ pc = "les_loop"
    /\ IF LesionLoopCond(url, scanned, counts)
       THEN /\ pc' = "les_fetch"
            /\ furl' = url
            /\ lab' = lab
       ELSE /\ pc' = "search_entry"
            /\ furl' = furl
            /\ lab' = SearchLabels[1]
    /\ tries' = <<>>
    /\ UNCHANGED <<api, ckfile, outfile, state, buckets, counts, url, scanned, j, resumed>>
    /\ UNCHANGED interrupted
    /\ UNCHANGED buildVars
    /\ UNCHANGED labelVars

FetchStream == IF pc = "les_fetch" THEN api.lesions ELSE api.search[lab]
FetchPool == IF pc = "les_fetch" THEN LesionPagePool ELSE SearchPagePool

\* one pass of the retry loop of fetch_json: attempt i succeeds and returns
FetchOk ==
    /\ pc \in {"les_fetch", "search_fetch"}
    /\ Len(tries) < RETRIES
    /\ tries' = Append(tries, [ok |-> TRUE, wait |-> 0])
    /\ j' = PageDoc(FetchPool, FetchStream, furl)
    /\ pc' = IF pc = "les_fetch" THEN "les_proc" ELSE "search_loop"
    /\ UNCHANGED <<api, ckfile, outfile, lab, state, buckets, counts, url, scanned,
                   furl, resumed>>
    /\ UNCHANGED interrupted
    /\ UNCHANGED buildVars
    /\ UNCHANGED labelVars

FetchFailSavingState ==
    /\ pc \in {"les_fetch", "search_fetch"}
    /\ Len(tries) < RETRIES
    /\ tries' = Append(tries, [ok |-> FALSE, wait |-> Backoff(Len(tries) + 1)])
    /\ IF Len(tries) + 1 = RETRIES
       THEN /\ pc' = "aborted" /\ NoProcess
            /\ ckfile' = save_ck(state, buckets, counts)
            /\ outfile' = Payload(state, buckets, counts)
       ELSE UNCHANGED <<pc, lab, state, buckets, counts, url, scanned, furl, j, resumed,
                        ckfile, outfile>>
    /\ UNCHANGED api
    /\ UNCHANGED interrupted
    /\ UNCHANGED buildVars
    /\ UNCHANGED labelVars

\* attempt i fails: sleep, then the next attempt, or RuntimeError after the last,
\* which nothing catches: the process ends
FetchFail ==
    /\ pc \in {"les_fetch", "search_fetch"}
    /\ Len(tries) < RETRIES
    /\ tries' = Append(tries, [ok |-> FALSE, wait |-> Backoff(Len(tries) + 1)])
    /\ IF Len(tries) + 1 = RETRIES
       THEN pc' = "aborted" /\ NoProcess
       ELSE UNCHANGED <<pc, lab, state, buckets, counts, url, scanned, furl, j, resumed>>
    /\ UNCHANGED <<api, ckfile, outfile>>
    /\ UNCHANGED interrupted
    /\ UNCHANGED buildVars
    /\ UNCHANGED labelVars

\* the body of the while loop of harvest_from_lesions up to the test for a save
LesProc ==
    /\ pc = "les_proc"
    /\ IF j.results = <<>>
       THEN /\ pc' = "search_entry"
            /\ lab' = SearchLabels[1]
            /\ UNCHANGED <<state, buckets, counts, url, scanned, furl, j, resumed>>
       ELSE IF LesionPageRaises([buckets |-> buckets, counts |-> counts], j.results)
       THEN pc' = "keyerror" /\ NoProcess
       ELSE LET nb == ProcessLesionPage([buckets |-> buckets, counts |-> counts], j.results)
                sc == scanned + Len(j.results)
            IN /\ buckets' = nb.buckets
               /\ counts' = nb.counts
               /\ scanned' = sc
               /\ url' = j.next
               /\ state' = [state EXCEPT !.lesions_url = j.next, !.scanned_lesions = sc]
               /\ pc' = IF LesionShouldSave(sc, Len(j.results)) THEN "les_save" ELSE "les_loop"
               /\ UNCHANGED <<lab, furl, j, resumed>>
    /\ UNCHANGED <<api, ckfile, outfile, tries>>
    /\ UNCHANGED interrupted
    /\ UNCHANGED buildVars
    /\ UNCHANGED labelVars

\* save_ck of harvest_from_lesions
LesSave ==
    /\ pc = "les_save"
    /\ ckfile' = save_ck(state, buckets, counts)
    /\ pc' = "les_loop"
    /\ UNCHANGED <<api, outfile, lab, state, buckets, counts, url, scanned, furl,
                   tries, j, resumed>>
    /\ UNCHANGED interrupted
    /\ UNCHANGED buildVars
    /\ UNCHANGED labelVars

\* harvest_by_search up to its first fetch_json call
SearchEntry ==
    /\ pc = "search_entry"
    /\ furl' = IF state.search_url[lab] # 0 THEN state.search_url[lab] ELSE 1
    /\ tries' = <<>>
    /\ pc' = "search_fetch"
    /\ UNCHANGED <<api, ckfile, outfile, lab, state, buckets, counts, url, scanned,
                   j, resumed>>
    /\ UNCHANGED interrupted
    /\ UNCHANGED buildVars
    /\ UNCHANGED labelVars

\* the return of harvest_by_search into main
SearchReturn ==
    IF lab = SearchLabels[1]
    THEN lab' = SearchLabels[2] /\ pc' = "search_entry"
    ELSE lab' = lab /\ pc' = "assemble"

\* the while test of harvest_by_search and the loop body up to save_ck
SearchLoop ==
    /\ pc = "search_loop"
    /\ IF ~SearchLoopCond(counts, lab, j)
       THEN /\ SearchReturn
            /\ UNCHANGED <<state, buckets, counts, url, scanned, furl, j, resumed>>
       ELSE IF SearchPageRaises([buckets |-> buckets, counts |-> counts], j.results, lab)
       THEN pc' = "keyerror" /\ NoProcess
       ELSE LET nb == ProcessSearchPage([buckets |-> buckets, counts |-> counts],
                                        j.results, lab)
            IN /\ buckets' = nb.buckets
               /\ counts' = nb.counts
               /\ state' = [state EXCEPT !.search_url[lab] = j.next]
               /\ pc' = "search_save"
               /\ UNCHANGED <<lab, url, scanned, furl, j, resumed>>
    /\ UNCHANGED <<api, ckfile, outfile, tries>>
    /\ UNCHANGED interrupted
    /\ UNCHANGED buildVars
    /\ UNCHANGED labelVars

\* save_ck of harvest_by_search
SearchSave ==
    /\ pc = "search_save"
    /\ ckfile' = save_ck(state, buckets, counts)
    /\ pc' = "search_next"
    /\ UNCHANGED <<api, outfile, lab, state, buckets, counts, url, scanned, furl,
                   tries, j, resumed>>
    /\ UNCHANGED interrupted
    /\ UNCHANGED buildVars
    /\ UNCHANGED labelVars

\* after save_ck: break without a next cursor, else fetch the next page
SearchNext ==
    /\ pc = "search_next"
    /\ IF state.search_url[lab] = 0
       THEN SearchReturn /\ UNCHANGED <<furl, tries>>
       ELSE /\ furl' = state.search_url[lab]
            /\ tries' = <<>>
            /\ pc' = "search_fetch"
            /\ lab' = lab
    /\ UNCHANGED <<api, ckfile, outfile, state, buckets, counts, url, scanned, j, resumed>>
    /\ UNCHANGED interrupted
    /\ UNCHANGED buildVars
    /\ UNCHANGED labelVars

\* build_sets for the three modules and the write of the output artifact
Assemble ==
    /\ pc = "assemble"
    /\ IF LABELS \subseteq DOMAIN buckets
       THEN /\ outfile' = Payload(state, buckets, counts)
            /\ pc' = "final_save"
            /\ UNCHANGED <<lab, state, buckets, counts, url, scanned, furl, j, resumed>>
       ELSE \* buckets['...'] of a build_sets argument raises KeyError
            /\ pc' = "keyerror" /\ NoProcess
            /\ UNCHANGED outfile
    /\ UNCHANGED <<api, ckfile, tries>>
    /\ UNCHANGED interrupted
    /\ UNCHANGED buildVars
    /\ UNCHANGED labelVars

\* the last save_ck of main
FinalSave ==
    /\ pc = "final_save"
    /\ ckfile' = save_ck(state, buckets, counts)
    /\ pc' = "done"
    /\ UNCHANGED <<api, outfile, lab, state, buckets, counts, url, scanned, furl,
                   tries, j, resumed>>
    /\ UNCHANGED interrupted
    /\ UNCHANGED buildVars
    /\ UNCHANGED labelVars

\* the process is killed between two steps
Crash ==
    /\ pc \notin Stopped
    /\ pc' = "crashed"
    /\ NoProcess
    /\ interrupted' = TRUE
    /\ tries' = <<>>
    /\ UNCHANGED <<api, ckfile, outfile>>
    /\ UNCHANGED buildVars
    /\ UNCHANGED labelVars

\* the process is killed inside write_text of save_ck: the file is cut short
CrashInSave ==
    /\ pc \in {"les_save", "search_save", "final_save"}
    /\ ckfile' = CutFile(state, buckets, counts)
    /\ pc' = "crashed"
    /\ NoProcess
    /\ interrupted' = TRUE
    /\ tries' = <<>>
    /\ UNCHANGED <<api, outfile>>
    /\ UNCHANGED buildVars
    /\ UNCHANGED labelVars

\* the process is killed inside write_text of the output artifact
CrashInOutput ==
    /\ pc = "assemble"
    /\ outfile' = BadOut
    /\ pc' = "crashed"
    /\ NoProcess
    /\ interrupted' = TRUE
    /\ tries' = <<>>
    /\ UNCHANGED <<api, ckfile>>
    /\ UNCHANGED buildVars
    /\ UNCHANGED labelVars

BuildIdle ==
    /\ bA = <<>> /\ bB = <<>> /\ nsets = 0 /\ pref = 0 /\ fallb = 0
    /\ sets = <<>> /\ bpc = "idle"

NoLesion == Lesion({}, EmptyId, <<>>)

LabelIdle == lesion_in = NoLesion /\ label_out = "" /\ mpc = "idle"

Init ==
    /\ api \in Apis
    /\ ckfile = NoFile
    /\ outfile = NoOut
    /\ pc = "boot"
    /\ lab = ""
    /\ state = FreshState
    /\ buckets = FreshBuckets
    /\ counts = FreshCounts
    /\ url = 0
    /\ scanned = 0
    /\ furl = 0
    /\ tries = <<>>
    /\ j = NoDoc
    /\ resumed = FALSE
    /\ interrupted = FALSE
    /\ BuildIdle
    /\ LabelIdle

Next ==
    \/ Start
    \/ LesLoop
    \/ FetchOk
    \/ FetchFail
    \/ LesProc
    \/ LesSave
    \/ SearchEntry
    \/ SearchLoop
    \/ SearchSave
    \/ SearchNext
    \/ Assemble
    \/ FinalSave
    \/ Crash
    \/ CrashInSave
    \/ CrashInOutput

Spec == Init /\ [][Next]_vars


\* ------------------------------------------------- build_sets on its own
\* the bucket length at which harvesting stops, TARGET_PER_LABEL of the script
FullBucketLen == 15

\* the bucket lengths build_sets is called with
BucketLens == 0..MaxBucketLen \cup {FullBucketLen}

BuildCase(label, id) ==
    [id |-> id, imageUrl |-> "u", diagnosis |-> label, source |-> "APIv2-lesions"]

\* a bucket of n cases of one label with the ids base+1 .. base+n, in one of
\* three orders of arrival
BucketOf(label, base, n, order) ==
    [i \in 1..n |->
        BuildCase(label, base + (CASE order = "asc" -> i
                                   [] order = "desc" -> n + 1 - i
                                   [] OTHER -> (i % n) + 1))]

HarvestIdle ==
    /\ api = Api(<<"LE">>, <<"SE">>, <<"SE">>)
    /\ ckfile = NoFile
    /\ outfile = NoOut
    /\ pc = "off"
    /\ lab = ""
    /\ state = FreshState
    /\ buckets = FreshBuckets
    /\ counts = FreshCounts
    /\ url = 0
    /\ scanned = 0
    /\ furl = 0
    /\ tries = <<>>
    /\ j = NoDoc
    /\ resumed = FALSE
    /\ interrupted = FALSE

InitBuild ==
    /\ HarvestIdle
    /\ \E na \in BucketLens, nb \in BucketLens, order \in {"asc", "desc", "rot"} :
          /\ bA = BucketOf("A", 0, na, order)
          /\ bB = BucketOf("B", 100, nb, order)
    /\ nsets \in 0..MaxSets
    /\ pref \in 0..MaxPerClass
    /\ fallb \in 0..MaxPerClass
    /\ sets = <<>>
    /\ bpc = "input"
    /\ LabelIdle

\* one call of build_sets
Build ==
    /\ bpc = "input"
    /\ sets' = build_sets(bA, bB, nsets, pref, fallb)
    /\ bpc' = "built"
    /\ UNCHANGED <<bA, bB, nsets, pref, fallb>>
    /\ UNCHANGED harvestVars
    /\ UNCHANGED labelVars

NextBuild == Build

SpecBuild == InitBuild /\ [][NextBuild]_vars

\* ================================================================= claims
Ids(s) == [i \in 1..Len(s) |-> s[i].id]

C3_Input ==
    /\ Len(bA) = 5 /\ Len(bB) = 5
    /\ nsets = 3 /\ pref = 5 /\ fallb = 3

\* C3 as stated: build_sets with two buckets of 5 cases, setCount 3,
\* preferredSize 5 and fallbackSize 3 returns the empty list.
C3_ReturnsEmpty == (bpc = "built" /\ C3_Input) => sets = <<>>

\* C3 as amended: with two buckets of 5 cases, setCount 3, preferredSize 5 and
\* fallbackSize 3 the preferred size is insufficient and the fallback pass
\* cannot build 3 sets either, and build_sets returns the one complete set of
\* the fallback pass: the 3 smallest ids of each bucket, interleaved A, B.
C3_ReturnsOneFallbackSet ==
    (bpc = "built" /\ C3_Input) =>
        /\ Len(sets) = 1
        /\ Ids(sets[1]) = <<1, 101, 2, 102, 3, 103>>

C3_Witness == bpc = "built" /\ C3_Input /\ bA[1].id = 5

\* C4: every QuizSet build_sets returns has length 2 x the per-class size of
\* the pass that produced the result, the same for all sets of the result,
\* with cases of bucket A at the even (0-based) positions and cases of bucket
\* B at the odd ones.
C4_SetShape ==
    bpc = "built" =>
        LET per_class == PerClassUsed(bA, bB, nsets, pref, fallb)
        IN /\ per_class \in {pref, fallb}
           /\ \A k \in 1..Len(sets) :
                /\ Len(sets[k]) = 2 * per_class
                /\ \A i \in 1..Len(sets[k]) :
                      IF i % 2 = 1
                      THEN \E x \in 1..Len(bA) : bA[x] = sets[k][i]
                      ELSE \E y \in 1..Len(bB) : bB[y] = sets[k][i]

C4_Witness ==
    /\ bpc = "built"
    /\ Len(sets) = 2 /\ nsets = 2
    /\ pref = 3 /\ fallb = 2
    /\ Len(sets[2]) = 4
    /\ Len(bA) # Len(bB)


\* ------------------------------------------------------- harvesting claims
Snapshot == CkData(state, buckets, counts)
Saved == load_ck(ckfile)

C2_NonEmptyIdAndUrl ==
    \A l \in LABELS : \A i \in 1..Len(buckets[l]) :
        buckets[l][i].id # EmptyId /\ buckets[l][i].imageUrl # ""

\* C5: a run that was killed at any point and restarted from the last saved
\* checkpoint ends with the buckets and counts of a run that nothing
\* interrupts, against the same pages.
C5_ResumeEqualsUninterrupted ==
    pc = "done" =>
        /\ buckets = UninterruptedRun(api).buckets
        /\ counts = UninterruptedRun(api).counts
        /\ Saved.buckets = buckets /\ Saved.counts = counts

C5_Witness ==
    /\ pc = "done" /\ interrupted /\ resumed
    /\ Len(buckets[SearchLabels[1]]) = TARGET_PER_LABEL
    /\ counts["melanoma"] > 0 /\ counts[SearchLabels[2]] > 0

\* C6: each label's bucket holds at most TARGET_PER_LABEL cases, in memory and
\* in the checkpoint file, also after crash-and-resume cycles.
C6_BucketCap ==
    \A l \in LABELS :
        /\ Len(buckets[l]) <= TARGET_PER_LABEL
        /\ Len(Saved.buckets[l]) <= TARGET_PER_LABEL

\* a resumed run has just passed over a record that is valid and new, and
\* that its full bucket did not take
C6_Witness ==
    /\ pc \in {"les_loop", "les_save"} /\ interrupted /\ resumed
    /\ Len(buckets["melanoma"]) = TARGET_PER_LABEL
    /\ \E i \in 1..Len(j.results) :
          /\ "images" \in DOMAIN j.results[i]
          /\ map_lesion_label(j.results[i].txt) = "melanoma"
          /\ PickImage(j.results[i]) # <<>>
          /\ lesion_to_case(PickImage(j.results[i])[1], "melanoma") # NoCase
          /\ \A k \in 1..Len(buckets["melanoma"]) :
                buckets["melanoma"][k].id # PickImage(j.results[i])[1].isic_id

NoDuplicateIds(bks) ==
    \A l \in LABELS : \A i, k \in 1..Len(bks[l]) :
        bks[l][i].id = bks[l][k].id => i = k

\* C7: no bucket contains two Cases with the same id, in memory and in the
\* checkpoint file, also when pages are read again.
C7_UniqueIds == NoDuplicateIds(buckets) /\ NoDuplicateIds(Saved.buckets)

\* a resumed run whose checkpoint had the search cursor exhausted has read
\* the first page again, and the page holds a case the bucket already had
C7_Witness ==
    /\ pc = "search_save" /\ resumed /\ furl = 1
    /\ Saved.search_url[lab] = 0
    /\ Len(buckets[lab]) < TARGET_PER_LABEL
    /\ \E i \in 1..Len(j.results) : \E k \in 1..Len(Saved.buckets[lab]) :
          /\ j.results[i].isic_id = Saved.buckets[lab][k].id
          /\ is_dermoscopic(j.results[i].image_type)

\* C8: one fetch_json call makes at most 5 attempts; every attempt before the
\* last one failed; failed attempt i is followed by a sleep of min(2^i, 20);
\* the call raises exactly when 5 attempts failed, and a document is returned
\* only by a successful attempt.
C8_FetchRetries ==
    /\ Len(tries) <= 5
    /\ \A i \in 1..Len(tries) :
          /\ i < Len(tries) => ~tries[i].ok
          /\ ~tries[i].ok => tries[i].wait = <<2, 4, 8, 16, 20>>[i]
    /\ pc = "aborted" <=> (Len(tries) = 5 /\ \A i \in 1..5 : ~tries[i].ok)
    /\ pc \in {"les_proc", "search_loop"} => (tries # <<>> /\ tries[Len(tries)].ok)

C8_Witness ==
    /\ pc = "aborted"
    /\ Len(tries) = 5
    /\ tries[5].wait = 20

\* a checkpoint file a later run can start from: cursors that are pages of the
\* archive or None, counts that are the bucket lengths
Resumable(file) ==
    file.kind = "ok" =>
        /\ file.data.lesions_url \in 0..Len(api.lesions)
        /\ \A l \in DOMAIN file.data.search_url :
              file.data.search_url[l] \in 0..Len(api.search[l])
        /\ \A l \in LABELS : file.data.counts[l] = Len(file.data.buckets[l])

\* C9: the step in which a fetch fails for the last time ends the run, writes
\* neither the output artifact nor the checkpoint, and leaves a checkpoint
\* file a later run can resume from.
C9_AbortKeepsFiles ==
    [][pc' = "aborted" =>
          /\ outfile' = outfile
          /\ ckfile' = ckfile
          /\ Resumable(ckfile')
          /\ buckets' = FreshBuckets]_vars

C9_Witness ==
    /\ pc = "aborted"
    /\ outfile.kind = "absent"
    /\ ckfile.kind = "ok"
    /\ \E l \in LABELS : ckfile.data.buckets[l] # <<>>
    /\ ckfile.data.search_url[SearchLabels[1]] # 0

\* C10: no page is fetched for a label whose bucket holds the target number of
\* cases: harvest_by_search fetches only while its label is short of the
\* target, harvest_from_lesions only while one of its four labels is.
C10_NoFetchWhenFull ==
    /\ pc = "search_fetch" => counts[lab] < TARGET_PER_LABEL
    /\ pc = "les_fetch" => ~LesionsDone(counts)


\* ------------------------------------------------- what the archive holds
Range(f) == {f[x] : x \in DOMAIN f}

\* every image record of the archive: search results and images of lesions
ArchiveImages ==
    UNION {Range(SearchPagePool[p]) : p \in DOMAIN SearchPagePool}
    \cup UNION {UNION {Range(les.images) : les \in Range(LesionPagePool[p])} :
                   p \in DOMAIN LesionPagePool}

ImageTypesOf(id) == {r.image_type : r \in {x \in ArchiveImages : x.isic_id = id}}
LesionIdsOf(id) == {r.lesion_id : r \in {x \in ArchiveImages : x.isic_id = id}} \ {""}

\* C11: of the records that share a lesion identifier only one is ever in a
\* bucket: no bucket holds two cases whose images the archive files under the
\* same lesion.
C11_OneCasePerLesion ==
    \A l \in LABELS : \A i, k \in 1..Len(buckets[l]) :
        (LesionIdsOf(buckets[l][i].id) \cap LesionIdsOf(buckets[l][k].id) # {}) => i = k

\* C12 as stated: a record is accepted only if its image type is empty or
\* contains "dermoscopic" in any letter case; a clinical image is in no bucket.
C12_OnlyDermoscopic ==
    \A l \in LABELS : \A i \in 1..Len(buckets[l]) :
        /\ ImageTypesOf(buckets[l][i].id) \cap {"", "dermoscopic", "Dermoscopic"} # {}
        /\ ImageTypesOf(buckets[l][i].id) \cap {"clinical", "Clinical"} = {}

\* C12 as amended: a record is accepted only if its image type is empty or
\* contains "dermo" in any letter case ("dermoscopy" is accepted too); a
\* clinical image is in no bucket.
C12_OnlyDermo ==
    \A l \in LABELS : \A i \in 1..Len(buckets[l]) :
        /\ ImageTypesOf(buckets[l][i].id)
              \cap {"", "dermoscopic", "Dermoscopic", "dermoscopy"} # {}
        /\ ImageTypesOf(buckets[l][i].id) \cap {"clinical", "Clinical"} = {}

\* a search page with a clinical record was processed and the bucket still
\* had room for it
C12_Witness ==
    /\ pc = "search_save"
    /\ Len(buckets[lab]) < TARGET_PER_LABEL
    /\ \E i \in 1..Len(j.results) :
          /\ j.results[i].image_type = "Clinical"
          /\ j.results[i].url # "" /\ j.results[i].isic_id # EmptyId


\* C13: a run that starts with a checkpoint file that is missing or cannot be
\* parsed starts as a fresh run: empty buckets, zero counts, zero scanned
\* total, first-page cursors, and no error.
C13_UnreadableCheckpointIsFresh ==
    [][(pc \in Stopped /\ pc' \notin Stopped /\ ckfile.kind # "ok") =>
          /\ pc' = "les_loop"
          /\ buckets' = FreshBuckets
          /\ counts' = FreshCounts
          /\ state' = FreshState
          /\ scanned' = 0
          /\ url' = 1
          /\ ~resumed']_vars

\* a run has started from a file that a kill inside save_ck cut short
C13_Witness ==
    /\ pc = "les_loop" /\ tries = <<>> /\ j = NoDoc
    /\ ckfile.kind = "malformed"
    /\ ckfile.data.buckets # FreshBuckets
    /\ buckets = FreshBuckets


\* ---------------------------------- runs from checkpoints of older formats
\* a checkpoint this script wrote after page LA of the lesion stream
BaseCk ==
    LET r == ProcessLesionPage([buckets |-> FreshBuckets, counts |-> FreshCounts],
                               LesionPagePool["LA"])
    IN CkData([lesions_url |-> 2, scanned_lesions |-> Len(LesionPagePool["LA"]),
               search_url |-> FreshState.search_url], r.buckets, r.counts)

\* the keys a checkpoint may lack: a top-level key, or one label's entry
\* inside counts or inside buckets
MissingKeys ==
    {<<"top", k>> : k \in {"lesions_url", "scanned_lesions", "search_url_sebaceous_hyperplasia",
                          "search_url_bowen", "counts", "buckets"}}
    \cup {<<"counts", l>> : l \in LABELS}
    \cup {<<"buckets", l>> : l \in LABELS}
    \cup {<<"none", "">>}

\* what main reads from checkpoint ck without key m: ck.get(key) is None and
\* takes main's default; counts is a defaultdict, so a label it lacks reads 0;
\* buckets is a plain dict and keeps the keys it was loaded with
WithoutKey(ck, m) ==
    CASE m = <<"top", "lesions_url">> -> [ck EXCEPT !.lesions_url = 0]
      [] m = <<"top", "scanned_lesions">> -> [ck EXCEPT !.scanned_lesions = 0]
      [] m = <<"top", "search_url_sebaceous_hyperplasia">> ->
            [ck EXCEPT !.search_url["sebaceous_hyperplasia"] = 0]
      [] m = <<"top", "search_url_bowen">> -> [ck EXCEPT !.search_url["bowen"] = 0]
      [] m = <<"top", "counts">> -> [ck EXCEPT !.counts = FreshCounts]
      [] m = <<"top", "buckets">> -> [ck EXCEPT !.buckets = FreshBuckets]
      [] m[1] = "counts" -> [ck EXCEPT !.counts[m[2]] = 0]
      [] m[1] = "buckets" ->
            [ck EXCEPT !.buckets = [l \in LABELS \ {m[2]} |-> ck.buckets[l]]]
      [] OTHER -> ck

OldApis == {Api(<<"LA", "LB">>, <<"SA">>, <<"SC">>), Api(<<"LA", "LC">>, <<"SB">>, <<"SE">>)}

InitOld ==
    /\ api \in OldApis
    /\ \E m \in MissingKeys : ckfile = [kind |-> "ok", data |-> WithoutKey(BaseCk, m)]
    /\ outfile = NoOut
    /\ pc = "boot"
    /\ lab = ""
    /\ state = FreshState
    /\ buckets = FreshBuckets
    /\ counts = FreshCounts
    /\ url = 0
    /\ scanned = 0
    /\ furl = 0
    /\ tries = <<>>
    /\ j = NoDoc
    /\ resumed = FALSE
    /\ interrupted = FALSE
    /\ BuildIdle
    /\ LabelIdle

SpecOld == InitOld /\ [][Next]_vars

\* C14: a run that starts from a checkpoint that lacks a key treats the key as
\* empty/zero and does not fail: no run ends in a KeyError.
C14_NoKeyError == pc # "keyerror"


\* ------------------------------------------------- further build_sets claims
SetsIds == [k \in 1..Len(sets) |-> Ids(sets[k])]

\* C15: build_sets depends only on the contents of the two buckets: for
\* buckets with unique ids the result is the same for every order of the
\* cases inside a bucket, namely the result for the buckets in ascending
\* order of id (and so two calls with identical buckets return identical
\* sequences of sets).
C15_OrderIndependent ==
    bpc = "built" =>
        sets = build_sets(BucketOf("A", 0, Len(bA), "asc"),
                          BucketOf("B", 100, Len(bB), "asc"), nsets, pref, fallb)

C15_Witness ==
    /\ bpc = "built"
    /\ Len(bA) >= 2 /\ bA[1].id > bA[2].id
    /\ Len(bB) >= 2 /\ bB[1].id > bB[2].id
    /\ Len(sets) >= 2 /\ Len(sets[1]) >= 4

\* the ids of set k of an attempt with p cases per class: the k-th chunk of p
\* ids of bucket A (1, 2, ...) and of bucket B (101, 102, ...), interleaved
ChunkIds(k, p) ==
    [i \in 1..(2 * p) |-> IF i % 2 = 1 THEN (k - 1) * p + (i + 1) \div 2
                          ELSE 100 + (k - 1) * p + i \div 2]

ExpectedSets(n, p) == [k \in 1..n |-> ChunkIds(k, p)]

\* C16: build_sets returns setCount sets of preferredSize per class, set k
\* being the k-th chunk of each id-sorted bucket interleaved A, B, when both
\* buckets hold setCount x preferredSize cases; otherwise setCount sets of
\* fallbackSize per class when both hold setCount x fallbackSize cases;
\* otherwise only the complete sets of fallbackSize, fewer than setCount.
\* With 15 and 15 cases, setCount 3 and preferredSize 5 it returns 3 sets of
\* length 10.
C16_BuildSetsCases ==
    bpc = "built" =>
        LET na == Len(bA)
            nb == Len(bB)
            Enough(p) == na >= nsets * p /\ nb >= nsets * p
        IN /\ IF Enough(pref) THEN SetsIds = ExpectedSets(nsets, pref)
              ELSE IF Enough(fallb) THEN SetsIds = ExpectedSets(nsets, fallb)
              ELSE /\ Len(sets) < nsets
                   /\ Len(sets) = Min(na \div fallb, nb \div fallb)
                   /\ SetsIds = ExpectedSets(Len(sets), fallb)
           /\ (na = FullBucketLen /\ nb = FullBucketLen /\ nsets = 3 /\ pref = 5) =>
                 /\ Len(sets) = 3
                 /\ \A k \in 1..3 : Len(sets[k]) = 10
                 /\ Ids(sets[1]) = <<1, 101, 2, 102, 3, 103, 4, 104, 5, 105>>

C16_Witness ==
    /\ bpc = "built"
    /\ Len(bA) = FullBucketLen /\ Len(bB) = FullBucketLen
    /\ nsets = 3 /\ pref = 5
    /\ bA[1].id = FullBucketLen
    /\ Len(sets) = 3 /\ Len(sets[3]) = 10

\* C20: for buckets with unique ids no case appears more than once in the
\* result of one build_sets call: no set repeats a case and two sets share
\* none, in the preferred and in the fallback attempt.
C20_NoCaseTwice ==
    bpc = "built" =>
        \A k1, k2 \in 1..Len(sets) :
            \A i1 \in 1..Len(sets[k1]), i2 \in 1..Len(sets[k2]) :
                sets[k1][i1].id = sets[k2][i2].id => (k1 = k2 /\ i1 = i2)

C20_Witness ==
    /\ bpc = "built"
    /\ pref > fallb /\ fallb >= 2
    /\ PerClassUsed(bA, bB, nsets, pref, fallb) = fallb
    /\ Len(sets) = 3
    /\ Len(bA) < FullBucketLen


\* ------------------------------------- runs against a lesion stream without end
\* archives whose lesions endpoint keeps returning non-empty pages with a next
\* cursor, and whose records never fill the four lesion buckets
EndlessApis ==
    {Api(l, <<"SA">>, <<"SC">>) : l \in {<<"LA", "AGAIN">>, <<"LC", "AGAIN">>}}
    \cup {Api(l, <<"SB">>, <<"SE">>) : l \in {<<"LB", "AGAIN">>, <<"LC", "LA", "AGAIN">>}}

InitEndless ==
    /\ api \in EndlessApis
    /\ ckfile = NoFile
    /\ outfile = NoOut
    /\ pc = "boot"
    /\ lab = ""
    /\ state = FreshState
    /\ buckets = FreshBuckets
    /\ counts = FreshCounts
    /\ url = 0
    /\ scanned = 0
    /\ furl = 0
    /\ tries = <<>>
    /\ j = NoDoc
    /\ resumed = FALSE
    /\ interrupted = FALSE
    /\ BuildIdle
    /\ LabelIdle

\* the steps the running script takes by itself; a failing request, a kill of
\* the process and a new start of the script are the environment's
ScriptStep ==
    \/ LesLoop
    \/ FetchOk
    \/ LesProc
    \/ LesSave
    \/ SearchEntry
    \/ SearchLoop
    \/ SearchSave
    \/ SearchNext
    \/ Assemble
    \/ FinalSave

\* a running script is not suspended for ever
SpecEndless == InitEndless /\ [][Next]_vars /\ WF_vars(ScriptStep)

\* the longest page of the lesions endpoint
MaxPageLen ==
    CHOOSE n \in 0..100 :
        /\ \E p \in DOMAIN LesionPagePool : Len(LesionPagePool[p]) = n
        /\ \A p \in DOMAIN LesionPagePool : Len(LesionPagePool[p]) <= n

InLesions == pc \in {"les_loop", "les_fetch", "les_proc", "les_save"}

\* C17 as stated: the number of scanned lesion records, in the run and in the
\* checkpoint that carries it to the next run, never exceeds the cap.
C17_ScannedWithinCap ==
    /\ scanned <= ScanCap
    /\ ckfile.kind = "ok" => ckfile.data.scanned_lesions <= ScanCap

\* C17 as amended: lesion-stream harvesting always terminates, also against a
\* stream that never ends and never fills the buckets: a page is requested
\* only while the scanned total is below the cap, every non-empty page raises
\* the total, and so the total, in the run and in the checkpoint, stays below
\* the cap plus the length of one page; a run that is harvesting lesions
\* eventually stops doing so.
C17_TerminatesWithinCapPlusPage ==
    /\ [][/\ pc' \in {"les_fetch", "les_proc"} => scanned' < ScanCap
          /\ (pc = "les_proc" /\ pc' \in {"les_loop", "les_save"}) => scanned' > scanned
          /\ scanned' < ScanCap + MaxPageLen
          /\ ckfile'.kind = "ok" => ckfile'.data.scanned_lesions < ScanCap + MaxPageLen]_vars
    /\ (InLesions ~> ~InLesions)

\* the cap, and nothing else, ended the lesion loop of a resumed run, above the cap
C17_Witness ==
    /\ pc = "search_entry"
    /\ url # 0 /\ ~LesionsDone(counts)
    /\ scanned > ScanCap
    /\ resumed /\ interrupted


\* ------------------------------------------------------------ counts
CountsMatch(cnts, bks) == \A l \in LABELS : cnts[l] = Len(bks[l])

\* C18: the count of each label equals the length of the label's bucket in
\* the running script, in every checkpoint it saved and in the output it
\* wrote, also for an under-filled bucket and after crashes and resumed runs.
C18_CountsAreBucketLengths ==
    /\ CountsMatch(counts, buckets)
    /\ ckfile.kind = "ok" => CountsMatch(ckfile.data.counts, ckfile.data.buckets)
    /\ pc \in {"final_save", "done"} =>
          /\ outfile.kind = "ok"
          /\ CountsMatch(outfile.counts, buckets)

C18_Witness ==
    /\ pc = "done" /\ interrupted /\ resumed
    /\ ckfile.kind = "ok" /\ outfile.kind = "ok"
    /\ \E l \in LABELS : outfile.counts[l] > 0 /\ outfile.counts[l] < TARGET_PER_LABEL
    /\ \E l \in LABELS : outfile.counts[l] = TARGET_PER_LABEL


\* ---------------------------------------------- map_lesion_label on its own
\* the terms map_lesion_label looks for in the diagnosis text
Terms ==
    {"actinic keratosis", "basal cell carcinoma", "melanoma", "nevus", "naevus",
     "bowen", "squamous cell carcinoma in situ"}

\* a lesion whose text contains any set of the terms, with one image
InitLabel ==
    /\ HarvestIdle
    /\ BuildIdle
    /\ \E txt \in SUBSET Terms, t \in {"dermoscopic", "clinical", ""} :
          lesion_in = Lesion(txt, 7, <<Img(7, "u", t)>>)
    /\ label_out = ""
    /\ mpc = "input"

\* one lesion of a page of harvest_from_lesions, the buckets being empty
MapLabel ==
    /\ mpc = "input"
    /\ label_out' = map_lesion_label(lesion_in.txt)
    /\ LET nb == ProcessLesion([buckets |-> buckets, counts |-> counts], lesion_in)
       IN buckets' = nb.buckets /\ counts' = nb.counts
    /\ mpc' = "mapped"
    /\ UNCHANGED <<api, ckfile, outfile, pc, lab, state, url, scanned, furl, tries, j,
                   resumed, interrupted>>
    /\ UNCHANGED lesion_in
    /\ UNCHANGED buildVars

NextLabel == MapLabel

SpecLabel == InitLabel /\ [][NextLabel]_vars

\* the terms in the order of precedence, each with its label
Precedence ==
    << <<"actinic keratosis", "actinic_keratosis">>,
       <<"basal cell carcinoma", "bcc">>,
       <<"melanoma", "melanoma">>,
       <<"nevus", "nevus">>,
       <<"naevus", "nevus">>,
       <<"bowen", "bowen">>,
       <<"squamous cell carcinoma in situ", "bowen">> >>

\* the label of the first term of the precedence order that txt contains
FirstMatch(txt) ==
    IF \A i \in DOMAIN Precedence : Precedence[i][1] \notin txt THEN "None"
    ELSE LET i == CHOOSE k \in DOMAIN Precedence :
                      /\ Precedence[k][1] \in txt
                      /\ \A m \in 1..(k - 1) : Precedence[m][1] \notin txt
         IN Precedence[i][2]

\* C19: map_lesion_label gives a lesion the label of the first term its text
\* contains in the order actinic keratosis, basal cell carcinoma, melanoma,
\* nevus/naevus, Bowen or squamous cell carcinoma in situ; a lesion matching
\* none gets no label and adds no case to any bucket, and a labelled lesion
\* adds a case to no bucket but its label's.
C19_LabelPrecedence ==
    mpc = "mapped" =>
        /\ label_out = FirstMatch(lesion_in.txt)
        /\ label_out = "None" => (buckets = FreshBuckets /\ counts = FreshCounts)
        /\ \A l \in LABELS : l # label_out => buckets[l] = <<>>

C19_Witness ==
    /\ mpc = "mapped"
    /\ {"melanoma", "actinic keratosis", "nevus"} \subseteq lesion_in.txt
    /\ label_out = "actinic_keratosis"
    /\ Len(buckets["actinic_keratosis"]) = 1

====
